---- MODULE Spec2Model ----
(***************************************************************************)
(* The event handler of run() in src/lib.rs as a state machine.            *)
(*                                                                         *)
(* The closure passed to event_loop.run is called once per event and runs  *)
(* to completion, so each event kind is one action.  Calls into the GPU,   *)
(* the window and the UI layer are recorded, in program order, in          *)
(* `effects` (the calls made by the handler invocation that ran last).     *)
(* ui.rs and vertex.rs are not part of the available source; UIState and   *)
(* the two mesh generators follow the specification text.                  *)
(***************************************************************************)
EXTENDS Integers, Sequences, FiniteSets

\* ---------------------------------------------------------------- bounds
MinSides == 3
MaxSides == 6

Sides == MinSides..MaxSides

\* ------------------------------------------------------------- constants
initial_width == 1360
initial_height == 768

RenderingStyle == {"Polygon", "Cube"}
\* active_shader is a string: the two names the match knows and one it does not
ShaderNames == {"main", "challenge", "wireframe"}
\* logical keys delivered with KeyboardInput
Keys == {"Escape", "Enter"}
\* ModifiersState values
ModifierStates == {{}, {"SHIFT"}}
\* sizes delivered with Resized
Sizes == {[width |-> initial_width, height |-> initial_height],
          [width |-> 800, height |-> 600]}

VARIABLES
    ui_state,          \* UIState: sides, rendering_style, active_shader
    previous_sides,    \* lib.rs:176
    vertex_buffer,     \* contents of the buffer bound to `vertex_buffer`
    index_buffer,      \* contents of the buffer bound to `index_buffer`
    num_indices,       \* lib.rs:195
    config,            \* SurfaceConfiguration width/height
    close_requested,   \* lib.rs:199
    modifiers,         \* lib.rs:200
    control_flow,      \* the event loop's ControlFlow
    loop,              \* "running", "exited" (elwt.exit) or "aborted" (panic)
    last_event,        \* kind of the event handled last
    effects,           \* external calls made while handling it, in order
    ui_read            \* ghost: ui_state as the last RedrawRequested handler found it

vars == <<ui_state, previous_sides, vertex_buffer, index_buffer, num_indices,
          config, close_requested, modifiers, control_flow, loop, last_event,
          effects, ui_read>>

\* ------------------------------------------------------ geometry generator
RECURSIVE FanIndices(_, _)
\* triangles (0, i, i+1) for i = from .. sides-2
FanIndices(from, sides) ==
    IF from > sides - 2 THEN <<>>
    ELSE <<0, from, from + 1>> \o FanIndices(from + 1, sides)

\* Vertex::generate_polygon(sides, 0.5): vertex i sits at angle 2*pi*i/sides on
\* the circle of radius 0.5 in the plane z = 0; the position is kept symbolic.
generate_polygon(sides) ==
    [vertices |-> [i \in 1..sides |-> [shape |-> "polygon", of |-> sides, at |-> i - 1]],
     indices  |-> FanIndices(1, sides)]

\* Vertex::generate_cube(): 8 corners, 6 faces of 2 triangles each
generate_cube ==
    [vertices |-> [i \in 1..8 |-> [shape |-> "cube", of |-> 8, at |-> i - 1]],
     indices  |-> <<0, 1, 2,  2, 3, 0,   4, 5, 6,  6, 7, 4,
                    0, 4, 7,  7, 3, 0,   1, 5, 6,  6, 2, 1,
                    3, 2, 6,  6, 7, 3,   0, 1, 5,  5, 4, 0>>]

\* ------------------------------------------------------------- UI layer
UIStates == [sides : Sides, rendering_style : RenderingStyle, active_shader : ShaderNames]

\* UIState::new()
UIStateNew == {u \in UIStates : u.rendering_style = "Polygon" /\ u.active_shader = "main"}

\* ui_state.draw_ui(..): the widgets may leave any field as it is or set it
draw_ui(ui) == UIStates

\* ------------------------------------------------------------ frame steps
Call(op, arg) == [op |-> op, arg |-> arg]

\* variant: the Cube disjunct is missing
NeedsRegeneration_SidesOnly(ui, prev) ==
    ui.sides # prev

\* the condition of the `if` that guards regeneration
NeedsRegeneration(ui, prev) ==
    ui.sides # prev \/ ui.rendering_style = "Cube"

\* variant: the two match arms are exchanged
NewMesh_Swapped(ui) ==
    IF ui.rendering_style = "Polygon" THEN generate_cube ELSE generate_polygon(ui.sides)

\* the mesh the `match ui_state.rendering_style` produces
NewMesh(ui) ==
    IF ui.rendering_style = "Polygon" THEN generate_polygon(ui.sides) ELSE generate_cube

\* variant: num_indices is not updated with the buffers
Regenerate_StaleCount(ui, prev, vb, ib, n) ==
    IF NeedsRegeneration(ui, prev)
    THEN LET m == NewMesh(ui) IN
         [vertex_buffer  |-> m.vertices,
          index_buffer   |-> m.indices,
          num_indices    |-> n,
          previous_sides |-> ui.sides,
          calls |-> << Call("create_buffer_init", [label |-> "Vertex Buffer", contents |-> m.vertices]),
                       Call("drop_buffer",        [label |-> "Vertex Buffer", contents |-> vb]),
                       Call("create_buffer_init", [label |-> "Index Buffer",  contents |-> m.indices]),
                       Call("drop_buffer",        [label |-> "Index Buffer",  contents |-> ib]) >>]
    ELSE [vertex_buffer  |-> vb,
          index_buffer   |-> ib,
          num_indices    |-> n,
          previous_sides |-> prev,
          calls |-> << >>]

\* state of the four mesh variables, and the calls made, after the regeneration block
Regenerate(ui, prev, vb, ib, n) ==
    IF NeedsRegeneration(ui, prev)
    THEN LET m == NewMesh(ui) IN
         [vertex_buffer  |-> m.vertices,
          index_buffer   |-> m.indices,
          num_indices    |-> Len(m.indices),
          previous_sides |-> ui.sides,
          calls |-> << Call("create_buffer_init", [label |-> "Vertex Buffer", contents |-> m.vertices]),
                       Call("drop_buffer",        [label |-> "Vertex Buffer", contents |-> vb]),
                       Call("create_buffer_init", [label |-> "Index Buffer",  contents |-> m.indices]),
                       Call("drop_buffer",        [label |-> "Index Buffer",  contents |-> ib]) >>]
    ELSE [vertex_buffer  |-> vb,
          index_buffer   |-> ib,
          num_indices    |-> n,
          previous_sides |-> prev,
          calls |-> << >>]

\* variant: the wildcard arm selects the other pipeline
SelectPipeline_FallbackChallenge(active_shader) ==
    CASE active_shader = "main"      -> "render_pipeline"
      [] active_shader = "challenge" -> "challenge_render_pipeline"
      [] OTHER                       -> "challenge_render_pipeline"

\* the `match ui_state.active_shader`
SelectPipeline(active_shader) ==
    CASE active_shader = "main"      -> "render_pipeline"
      [] active_shader = "challenge" -> "challenge_render_pipeline"
      [] OTHER                       -> "render_pipeline"

\* the render pass block
RenderPass(active_shader, vb, ib, n) ==
    << Call("begin_render_pass", "Render Pass"),
       Call("set_pipeline", SelectPipeline(active_shader)),
       Call("set_vertex_buffer", vb),
       Call("set_index_buffer", ib),
       Call("draw_indexed", n),
       Call("end_render_pass", "Render Pass") >>

\* variant: the UI pass is recorded before the scene's render pass
Frame_UIBeforeDraw(acquired, active_shader, vb, ib, n, size) ==
    IF ~acquired
    THEN << Call("get_current_texture", "Err"),
            Call("panic", "Failed to acquire next swap chain texture") >>
    ELSE << Call("get_current_texture", "Ok"),
            Call("create_view", "surface_texture"),
            Call("create_command_encoder", "encoder"),
            Call("draw_ui", size) >>
         \o RenderPass(active_shader, vb, ib, n)
         \o << Call("submit", "encoder"),
               Call("present", "surface_texture"),
               Call("request_redraw", "window") >>

\* variant: the frame ends without asking for the next redraw
Frame_NoRequestRedraw(acquired, active_shader, vb, ib, n, size) ==
    IF ~acquired
    THEN << Call("get_current_texture", "Err"),
            Call("panic", "Failed to acquire next swap chain texture") >>
    ELSE << Call("get_current_texture", "Ok"),
            Call("create_view", "surface_texture"),
            Call("create_command_encoder", "encoder") >>
         \o RenderPass(active_shader, vb, ib, n)
         \o << Call("draw_ui", size),
               Call("submit", "encoder"),
               Call("present", "surface_texture") >>

\* variant: a failed acquisition skips the frame and asks for another redraw
Frame_SkipOnFailure(acquired, active_shader, vb, ib, n, size) ==
    IF ~acquired
    THEN << Call("get_current_texture", "Err"),
            Call("request_redraw", "window") >>
    ELSE << Call("get_current_texture", "Ok"),
            Call("create_view", "surface_texture"),
            Call("create_command_encoder", "encoder") >>
         \o RenderPass(active_shader, vb, ib, n)
         \o << Call("draw_ui", size),
               Call("submit", "encoder"),
               Call("present", "surface_texture"),
               Call("request_redraw", "window") >>

\* the calls of a frame from surface acquisition on
Frame(acquired, active_shader, vb, ib, n, size) ==
    IF ~acquired
    THEN << Call("get_current_texture", "Err"),
            Call("panic", "Failed to acquire next swap chain texture") >>
    ELSE << Call("get_current_texture", "Ok"),
            Call("create_view", "surface_texture"),
            Call("create_command_encoder", "encoder") >>
         \o RenderPass(active_shader, vb, ib, n)
         \o << Call("draw_ui", size),
               Call("submit", "encoder"),
               Call("present", "surface_texture"),
               Call("request_redraw", "window") >>

\* ------------------------------------------------------------------ Init
Init ==
    /\ ui_state \in UIStateNew
    /\ previous_sides = ui_state.sides
    /\ vertex_buffer = generate_polygon(ui_state.sides).vertices
    /\ index_buffer = generate_polygon(ui_state.sides).indices
    /\ num_indices = Len(generate_polygon(ui_state.sides).indices)
    /\ config = [width |-> initial_width, height |-> initial_height]
    /\ close_requested = FALSE
    /\ modifiers = {}
    /\ control_flow = "Wait"
    /\ loop = "running"
    /\ last_event = "None"
    /\ effects = << >>
    /\ ui_read = ui_state

\* --------------------------------------------------------------- actions
Running == loop = "running"

\* egui_renderer.handle_input(&window, &event), first call of every window event
HandleInput(kind, data) == << Call("handle_input", [kind |-> kind, data |-> data]) >>

\* variant: the flag is assigned the comparison instead of being set
CloseAfterKey_Overwrite(close, key) == key = "Escape"

\* close_requested after a KeyboardInput with this logical key
CloseAfterKey(close, key) == IF key = "Escape" THEN TRUE ELSE close

\* whether AboutToWait calls elwt.exit()
ExitsLoop(close) == close

CloseRequested ==
    /\ Running
    /\ control_flow' = "Poll"
    /\ last_event' = "CloseRequested"
    /\ effects' = HandleInput("CloseRequested", "")
    /\ close_requested' = TRUE
    /\ UNCHANGED <<ui_state, previous_sides, vertex_buffer, index_buffer,
                   num_indices, config, modifiers, loop, ui_read>>

ModifiersChanged ==
    /\ Running
    /\ \E new \in ModifierStates :
         /\ modifiers' = new
         /\ effects' = HandleInput("ModifiersChanged", new)
    /\ control_flow' = "Poll"
    /\ last_event' = "ModifiersChanged"
    /\ UNCHANGED <<ui_state, previous_sides, vertex_buffer, index_buffer,
                   num_indices, config, close_requested, loop, ui_read>>

KeyboardInput ==
    /\ Running
    /\ \E key \in Keys :
         /\ close_requested' = CloseAfterKey(close_requested, key)
         /\ effects' = HandleInput("KeyboardInput", key)
    /\ control_flow' = "Poll"
    /\ last_event' = "KeyboardInput"
    /\ UNCHANGED <<ui_state, previous_sides, vertex_buffer, index_buffer,
                   num_indices, config, modifiers, loop, ui_read>>

Resized ==
    /\ Running
    /\ \E new_size \in Sizes :
         /\ config' = [width |-> new_size.width, height |-> new_size.height]
         /\ effects' = HandleInput("Resized", new_size)
                       \o << Call("configure", <<new_size.width, new_size.height>>) >>
    /\ control_flow' = "Poll"
    /\ last_event' = "Resized"
    /\ UNCHANGED <<ui_state, previous_sides, vertex_buffer, index_buffer,
                   num_indices, close_requested, modifiers, loop, ui_read>>

RedrawRequested ==
    /\ Running
    /\ \E acquired \in BOOLEAN :
         LET r == Regenerate(ui_state, previous_sides, vertex_buffer, index_buffer, num_indices) IN
         /\ vertex_buffer' = r.vertex_buffer
         /\ index_buffer' = r.index_buffer
         /\ num_indices' = r.num_indices
         /\ previous_sides' = r.previous_sides
         /\ effects' = HandleInput("RedrawRequested", "") \o r.calls
                       \o Frame(acquired, ui_state.active_shader, r.vertex_buffer,
                                r.index_buffer, r.num_indices, <<config.width, config.height>>)
         /\ IF acquired
            THEN /\ ui_state' \in draw_ui(ui_state)
                 /\ loop' = loop
            ELSE /\ ui_state' = ui_state
                 /\ loop' = "aborted"
    /\ control_flow' = "Poll"
    /\ last_event' = "RedrawRequested"
    /\ ui_read' = ui_state
    /\ UNCHANGED <<config, close_requested, modifiers>>

\* variant: an unhandled window event clears the modifiers
OtherWindowEvent_ResetsModifiers ==
    /\ loop = "running"
    /\ control_flow' = "Poll"
    /\ last_event' = "OtherWindowEvent"
    /\ effects' = HandleInput("OtherWindowEvent", "")
    /\ modifiers' = {}
    /\ UNCHANGED <<ui_state, previous_sides, vertex_buffer, index_buffer,
                   num_indices, config, close_requested, loop, ui_read>>

\* any WindowEvent variant caught by the inner wildcard arm
OtherWindowEvent ==
    /\ Running
    /\ control_flow' = "Poll"
    /\ last_event' = "OtherWindowEvent"
    /\ effects' = HandleInput("OtherWindowEvent", "")
    /\ UNCHANGED <<ui_state, previous_sides, vertex_buffer, index_buffer,
                   num_indices, config, close_requested, modifiers, loop, ui_read>>

AboutToWait ==
    /\ Running
    /\ control_flow' = "Poll"
    /\ last_event' = "AboutToWait"
    /\ IF ExitsLoop(close_requested)
       THEN /\ loop' = "exited"
            /\ effects' = << Call("exit", "elwt") >>
       ELSE /\ loop' = loop
            /\ effects' = << >>
    /\ UNCHANGED <<ui_state, previous_sides, vertex_buffer, index_buffer,
                   num_indices, config, close_requested, modifiers, ui_read>>

\* any Event variant caught by the outer wildcard arm
OtherEvent ==
    /\ Running
    /\ control_flow' = "Poll"
    /\ last_event' = "OtherEvent"
    /\ effects' = << >>
    /\ UNCHANGED <<ui_state, previous_sides, vertex_buffer, index_buffer,
                   num_indices, config, close_requested, modifiers, loop, ui_read>>

Next ==
    \/ CloseRequested
    \/ ModifiersChanged
    \/ KeyboardInput
    \/ Resized
    \/ RedrawRequested
    \/ OtherWindowEvent
    \/ AboutToWait
    \/ OtherEvent

Spec == Init /\ [][Next]_vars

\* ------------------------------------------------- reading the call log
Count(e, op) == Cardinality({i \in 1..Len(e) : e[i].op = op})
Has(e, op) == Count(e, op) > 0
\* position of the first call of op
Pos(e, op) == CHOOSE i \in 1..Len(e) : e[i].op = op /\ \A j \in 1..(i - 1) : e[j].op # op
Arg(e, op) == e[Pos(e, op)].arg
\* positions of buffer creations / drops with a label
Created(e, label) ==
    {i \in 1..Len(e) : e[i].op = "create_buffer_init" /\ e[i].arg.label = label}
Dropped(e, label) ==
    {i \in 1..Len(e) : e[i].op = "drop_buffer" /\ e[i].arg.label = label}
\* both buffers were replaced, each exactly once
Replaced(e) ==
    Cardinality(Created(e, "Vertex Buffer")) = 1 /\ Cardinality(Created(e, "Index Buffer")) = 1
NothingCreated(e) == ~Has(e, "create_buffer_init")
\* the mesh bound for the draw call
BoundMesh(e) ==
    [vertices |-> Arg(e, "set_vertex_buffer"), indices |-> Arg(e, "set_index_buffer")]

Redrawn == last_event = "RedrawRequested"
Drew == Redrawn /\ Has(effects, "draw_indexed")
AllMeshes == {generate_polygon(s) : s \in Sides} \cup {generate_cube}

\* ------------------------------------------------------------------ C1
\* C1: whenever rendering_style differs from the one the previous redraw read,
\* the next RedrawRequested replaces both buffers, and its draw call is bound
\* to the mesh generated for the rendering_style and sides it reads.
C1_StyleChangeRegeneratesMesh ==
    [][ (ui_state.rendering_style # ui_read.rendering_style
         /\ last_event' = "RedrawRequested")
        => /\ Replaced(effects')
           /\ Has(effects', "draw_indexed") => BoundMesh(effects') = NewMesh(ui_state) ]_vars

\* ------------------------------------------------------------------ C2
\* C2: when the previous redraw read Polygon with sides = 6 and its UI pass
\* left rendering_style = Cube, the following RedrawRequested creates the
\* vertex buffer once and the index buffer once, sets num_indices to the cube's
\* index count, does so before its draw call, and draws the cube mesh.
C2_PolygonToCubeReplacesOnce ==
    [][ (ui_read.rendering_style = "Polygon" /\ ui_read.sides = 6
         /\ ui_state.rendering_style = "Cube"
         /\ last_event' = "RedrawRequested")
        => /\ Replaced(effects')
           /\ Count(effects', "create_buffer_init") = 2
           /\ vertex_buffer' = generate_cube.vertices
           /\ index_buffer' = generate_cube.indices
           /\ num_indices' = Len(generate_cube.indices)
           /\ Has(effects', "draw_indexed") =>
                /\ \A i \in Created(effects', "Vertex Buffer") \cup Created(effects', "Index Buffer") :
                       i < Pos(effects', "draw_indexed")
                /\ Count(effects', "draw_indexed") = 1
                /\ BoundMesh(effects') = generate_cube
                /\ Arg(effects', "draw_indexed") = Len(generate_cube.indices) ]_vars

\* a redraw that read Cube, dropped the hexagon's buffers and drew
C2_Witness ==
    /\ Drew
    /\ ui_read.rendering_style = "Cube"
    /\ Replaced(effects)
    /\ \E i \in Dropped(effects, "Vertex Buffer") :
           effects[i].arg.contents = generate_polygon(6).vertices
    /\ BoundMesh(effects) = generate_cube

\* ------------------------------------------------------------------ C3
\* C3: a redraw that begins its render pass sets exactly one pipeline, chosen
\* by the active_shader it read: "challenge" gives the challenge pipeline,
\* "main" and every other string give the main pipeline; the loop keeps running.
C3_PipelineByActiveShader ==
    (Redrawn /\ Has(effects, "begin_render_pass"))
    => /\ Count(effects, "set_pipeline") = 1
       /\ ui_read.active_shader = "main" => Arg(effects, "set_pipeline") = "render_pipeline"
       /\ ui_read.active_shader = "challenge"
            => Arg(effects, "set_pipeline") = "challenge_render_pipeline"
       /\ ui_read.active_shader \notin {"main", "challenge"}
            => Arg(effects, "set_pipeline") = "render_pipeline"
       /\ loop = "running"
       /\ ~Has(effects, "panic")

\* a redraw that read an unrecognised shader name (set by an earlier UI pass)
C3_Witness ==
    /\ Redrawn
    /\ ui_read.active_shader = "wireframe"
    /\ Has(effects, "set_pipeline")
    /\ Arg(effects, "set_pipeline") = "render_pipeline"
    /\ loop = "running"

\* ------------------------------------------------------------------ C4
\* C4: CloseRequested and a KeyboardInput with the Escape key set
\* close_requested; no step resets it; an AboutToWait with the flag set exits
\* the loop, and the loop exits only at an AboutToWait with the flag set.
C4_CloseFlag ==
    [][ /\ last_event' = "CloseRequested" => close_requested'
        /\ (last_event' = "KeyboardInput" /\ effects'[1].arg.data = "Escape") => close_requested'
        /\ close_requested => close_requested'
        /\ (loop = "running" /\ close_requested /\ last_event' = "AboutToWait")
             => loop' = "exited"
        /\ (loop # "exited" /\ loop' = "exited")
             => (close_requested /\ last_event' = "AboutToWait") ]_vars

\* the loop has exited, after Escape, with other events handled in between
C4_Witness ==
    /\ loop = "exited"
    /\ close_requested
    /\ last_event = "AboutToWait"
    /\ modifiers # {}

\* ------------------------------------------------------------------ C5
\* C5: a redraw whose surface acquisition fails tries it once, begins no render
\* pass, draws nothing, runs no UI pass, submits and presents nothing, requests
\* no redraw, and leaves the process aborted with no later event handled.
C5_AcquisitionFailureIsFatal ==
    /\ (Redrawn /\ Has(effects, "get_current_texture")
          /\ Arg(effects, "get_current_texture") = "Err")
       => /\ loop = "aborted"
          /\ Count(effects, "get_current_texture") = 1
          /\ \A op \in {"begin_render_pass", "set_pipeline", "draw_indexed", "draw_ui",
                        "submit", "present", "request_redraw"} : ~Has(effects, op)
          /\ ui_state = ui_read
    /\ loop = "aborted"
       => /\ Redrawn
          /\ Arg(effects, "get_current_texture") = "Err"
          /\ ~ENABLED Next

\* the failing redraw came after a regeneration and a close request
C5_Witness ==
    /\ loop = "aborted"
    /\ Redrawn
    /\ Replaced(effects)
    /\ close_requested

\* ------------------------------------------------------------------ C6
\* C6: a window event of any other kind, and any non-window event other than
\* AboutToWait, leaves close_requested, modifiers, the surface size,
\* previous_sides, num_indices and both buffers as they were and makes no
\* draw, submit, present or request_redraw call.
C6_OtherEventsIgnored ==
    [][ last_event' \in {"OtherWindowEvent", "OtherEvent"}
        => /\ UNCHANGED <<close_requested, modifiers, config, previous_sides,
                          num_indices, vertex_buffer, index_buffer>>
           /\ \A op \in {"draw_indexed", "submit", "present", "request_redraw"} :
                  ~Has(effects', op) ]_vars

\* an unhandled window event arrived while every one of those fields had
\* moved away from its initial value
C6_Witness ==
    /\ last_event = "OtherWindowEvent"
    /\ close_requested
    /\ modifiers # {}
    /\ config.width # initial_width
    /\ vertex_buffer = generate_cube.vertices
    /\ loop = "running"

\* ------------------------------------------------------------------ C7
\* C7: a redraw that acquired its surface image makes, each exactly once and
\* in this order, its buffer replacement (if any), set_pipeline, draw_indexed,
\* draw_ui, submit and present; pipeline and mesh of the draw call are those of
\* the UI state the redraw read, whatever its own UI pass changed afterwards.
C7_FrameOrder ==
    (Redrawn /\ Has(effects, "get_current_texture")
       /\ Arg(effects, "get_current_texture") = "Ok")
    => /\ \A op \in {"set_pipeline", "set_vertex_buffer", "set_index_buffer",
                     "draw_indexed", "draw_ui", "submit", "present"} :
              Count(effects, op) = 1
       /\ NothingCreated(effects) \/ Replaced(effects)
       /\ \A i \in 1..Len(effects) :
              effects[i].op \in {"create_buffer_init", "drop_buffer"}
                  => i < Pos(effects, "set_pipeline")
       /\ Pos(effects, "set_pipeline") < Pos(effects, "draw_indexed")
       /\ Pos(effects, "draw_indexed") < Pos(effects, "draw_ui")
       /\ Pos(effects, "draw_ui") < Pos(effects, "submit")
       /\ Pos(effects, "submit") < Pos(effects, "present")
       /\ Arg(effects, "set_pipeline") =
              (IF ui_read.active_shader = "challenge"
               THEN "challenge_render_pipeline" ELSE "render_pipeline")
       /\ Replaced(effects) =>
              (BoundMesh(effects) =
                   (IF ui_read.rendering_style = "Cube"
                    THEN generate_cube ELSE generate_polygon(ui_read.sides)))
       /\ BoundMesh(effects) = [vertices |-> vertex_buffer, indices |-> index_buffer]
       /\ Arg(effects, "draw_indexed") = num_indices

\* the UI pass of this redraw changed shader, style and sides after the draw
C7_Witness ==
    /\ Drew
    /\ Has(effects, "present")
    /\ ui_read.active_shader = "main"
    /\ ui_state.active_shader = "challenge"
    /\ Arg(effects, "set_pipeline") = "render_pipeline"
    /\ ui_read.rendering_style = "Polygon"
    /\ ui_state.rendering_style = "Cube"
    /\ ui_state.sides # ui_read.sides
    /\ BoundMesh(effects) = generate_polygon(ui_read.sides)

\* ------------------------------------------------------------------ C8
\* C8: a redraw replaces both buffers and num_indices exactly when, at its
\* start, sides differs from previous_sides or rendering_style is Cube; in
\* Cube style that is every redraw, and a Polygon redraw with sides equal to
\* previous_sides leaves buffers, num_indices and previous_sides unchanged.
C8_ReplacementCondition ==
    [][ last_event' = "RedrawRequested"
        => IF ui_state.sides # previous_sides \/ ui_state.rendering_style = "Cube"
           THEN /\ Replaced(effects')
                /\ \A i \in Created(effects', "Vertex Buffer") :
                       effects'[i].arg.contents = vertex_buffer'
                /\ \A i \in Created(effects', "Index Buffer") :
                       effects'[i].arg.contents = index_buffer'
                /\ num_indices' = Len(index_buffer')
                /\ ui_state.rendering_style = "Cube" =>
                       (vertex_buffer' = generate_cube.vertices
                        /\ index_buffer' = generate_cube.indices)
           ELSE /\ NothingCreated(effects')
                /\ ~Has(effects', "drop_buffer")
                /\ UNCHANGED <<vertex_buffer, index_buffer, num_indices, previous_sides>> ]_vars

\* a Cube redraw dropped a cube mesh and created it again; sides had not changed
C8_Witness ==
    /\ Drew
    /\ ui_read.rendering_style = "Cube"
    /\ Replaced(effects)
    /\ \E i \in Dropped(effects, "Vertex Buffer") :
           effects[i].arg.contents = generate_cube.vertices
    /\ \E i \in Created(effects, "Vertex Buffer") :
           effects[i].arg.contents = generate_cube.vertices

\* ------------------------------------------------------------------ C9
\* C9: a redraw that presented its frame made exactly one request_redraw call,
\* as its last call; a redraw handler that did not abort ran all its calls
\* before the next event; and while the loop runs RedrawRequested is served
\* whether or not close_requested is set.
C9_ContinuousRedraw ==
    /\ (Redrawn /\ Has(effects, "present"))
       => /\ Count(effects, "request_redraw") = 1
          /\ effects[Len(effects)].op = "request_redraw"
          /\ Pos(effects, "present") = Len(effects) - 1
    /\ (Redrawn /\ loop # "aborted")
       => /\ Has(effects, "present")
          /\ Has(effects, "submit")
    /\ loop = "running" => ENABLED RedrawRequested

\* a complete redraw served while close_requested was already set
C9_Witness ==
    /\ Drew
    /\ close_requested
    /\ loop = "running"
    /\ effects[Len(effects)].op = "request_redraw"

\* ----------------------------------------------------------------- C10
\* C10: at every draw call the bound vertex and index buffers hold one
\* generated mesh, num_indices is that mesh's index count (the draw range ends
\* at the end of the index buffer) and previous_sides is the sides value this
\* redraw read.
C10_DrawStateConsistent ==
    Drew
    => /\ \E m \in AllMeshes :
              /\ BoundMesh(effects) = m
              /\ Arg(effects, "draw_indexed") = Len(m.indices)
       /\ Arg(effects, "draw_indexed") = Len(Arg(effects, "set_index_buffer"))
       /\ Arg(effects, "draw_indexed") = num_indices
       /\ previous_sides = ui_read.sides

\* a draw right after a replacement that changed the index count
C10_Witness ==
    /\ Drew
    /\ Replaced(effects)
    /\ \E i \in Dropped(effects, "Index Buffer") :
           Len(effects[i].arg.contents) # num_indices
    /\ ui_read.rendering_style = "Polygon"
    /\ ui_read.sides = MaxSides

====
